---- MODULE Spec2Model ----
(***************************************************************************)
(* Work assignment and review consensus engine of pecha-tool-annotation.   *)
(*                                                                         *)
(* The state is the content of the database tables texts, annotations,     *)
(* annotation_reviews and user_rejected_texts, the position of every       *)
(* request handler that is between two database operations, and the last   *)
(* response sent to a caller.  Every action is one request handler of      *)
(* routers/*.py, or, for the handlers whose interleaving matters, one      *)
(* database operation of it.                                               *)
(***************************************************************************)
EXTENDS Integers, Sequences, FiniteSets, Bags, TLC

(* ---------------------------------------------------------------- bounds *)
\* texts created in one run of the assignment model and of the skip model
MaxTexts == 2
\* texts and annotations created in one run of the review model
MaxReviewTexts == 1
MaxAnnotations == 2
\* characters in the content of every text
ContentLength == 2

(* ------------------------------------------------------------- constants *)
\* a NULL column / Python None; row ids start at 1
NULL == 0
\* a field that the body of an update request does not set
Unset == -1

INITIALIZED == "initialized"
ANNOTATED == "annotated"
REVIEWED == "reviewed"
REVIEWED_NEEDS_REVISION == "reviewed_needs_revision"
SKIPPED == "skipped"
PROGRESS == "progress"
VALID_STATUSES ==
    {INITIALIZED, ANNOTATED, REVIEWED, REVIEWED_NEEDS_REVISION, SKIPPED, PROGRESS}

\* values of texts.source: the literal the queries compare with, any other
\* string, and the NULL column (kept a string so that it compares with them)
BulkSource == "Bulk Upload"
OtherSource == "file.txt"
NullSource == "NULL"
\* the sources given to the bulk upload and to the upload of one text: each
\* has one that the work-in-progress query of its users matches and one that
\* it does not
PoolSources == {BulkSource, OtherSource}
UploadSources == {OtherSource, NullSource}

\* the users of the model, by role (users.role, UserRole)
Annotators == {1, 2}
Admins == {3}
SelfUsers == {4}
Reviewers == {5}
Users == Annotators \cup Admins \cup SelfUsers \cup Reviewers

UserRole(u) ==
    IF u \in Annotators THEN "annotator"
    ELSE IF u \in Admins THEN "admin"
    ELSE IF u \in SelfUsers THEN "user"
    ELSE "reviewer"

\* user_role left at its default, None
NoRole == "None"

\* the decision strings a client may send
Decisions == {"agree", "disagree", "maybe"}
\* the decision strings of the requests of the review model
SubmittedDecisions == {"agree", "disagree"}

(* ----------------------------------------------------------------- state *)
VARIABLES
    texts,        \* table texts: row id -> row (a sequence, ids 1..Len)
    annotations,  \* table annotations: row id -> row; a deleted row keeps its id
    reviews,      \* table annotation_reviews: set of rows
    rejected,     \* table user_rejected_texts: bag of rows (user_id, text_id)
    req,          \* per user: the handler in progress and its local variables
    resp,         \* the response sent by the latest step, NoResponse if it sent none
    skipped       \* history: (user, text) such that user called skip while holding text

vars == <<texts, annotations, reviews, rejected, req, resp, skipped>>

TextIds == DOMAIN texts
AnnotationIds == {a \in DOMAIN annotations : ~annotations[a].deleted}

\* what is left of a deleted row of annotations: its id is not given again
Tombstone ==
    [text_id |-> NULL, annotator_id |-> NULL, label |-> 1,
     start_position |-> 0, end_position |-> 0, deleted |-> TRUE]

Idle == [op |-> "none", pc |-> "idle", text |-> NULL, sel |-> NULL]

\* a response: the handler, its caller, the id and the list length of the
\* request, the HTTP status code and the id of the text in the body
Response(op, u, arg, n, code, t) ==
    [op |-> op, user |-> u, arg |-> arg, n |-> n, code |-> code, text |-> t]

NoResponse == Response("none", NULL, NULL, 0, 0, NULL)

Init ==
    /\ texts = <<>>
    /\ annotations = <<>>
    /\ reviews = {}
    /\ rejected = EmptyBag
    /\ req = [u \in Users |-> Idle]
    /\ resp = NoResponse
    /\ skipped = {}

(* ------------------------------------------------------------ crud/text *)
NewText(source, uploaded_by) ==
    [status |-> INITIALIZED, annotator_id |-> NULL, reviewer_id |-> NULL,
     uploaded_by |-> uploaded_by, source |-> source]

\* get_work_in_progress without the filter on the annotator
get_work_in_progress_any_user(tbl, user_id, user_role) ==
    {t \in DOMAIN tbl : tbl[t].status = PROGRESS}

\* rows matched by get_work_in_progress; the SQL comparison source != 'Bulk
\* Upload' is not true of a NULL source
get_work_in_progress(tbl, user_id, user_role) ==
    IF user_role = "annotator"
    THEN {t \in DOMAIN tbl : /\ tbl[t].annotator_id = user_id
                             /\ tbl[t].status = PROGRESS
                             /\ tbl[t].source = BulkSource}
    ELSE IF user_role = "user"
    THEN {t \in DOMAIN tbl : /\ tbl[t].annotator_id = user_id
                             /\ tbl[t].status = PROGRESS
                             /\ tbl[t].source # NullSource
                             /\ tbl[t].source # BulkSource}
    ELSE {}

\* get_unassigned_text_for_user without the filter on the uploader
get_unassigned_text_any_uploader(tbl, rej, user_id, user_role) ==
    {t \in DOMAIN tbl :
        /\ tbl[t].status = INITIALIZED
        /\ tbl[t].annotator_id = NULL
        /\ ~BagIn([user_id |-> user_id, text_id |-> t], rej)}

\* rows matched by get_unassigned_text_for_user
get_unassigned_text_for_user(tbl, rej, user_id, user_role) ==
    {t \in DOMAIN tbl :
        /\ tbl[t].status = INITIALIZED
        /\ tbl[t].annotator_id = NULL
        /\ ~BagIn([user_id |-> user_id, text_id |-> t], rej)
        /\ (user_role = "user" => tbl[t].uploaded_by = user_id)
        /\ (user_role = "annotator" => tbl[t].uploaded_by = NULL)}

\* the table after assign_text_to_user
assign_text_to_user(tbl, text_id, user_id) ==
    IF text_id \in DOMAIN tbl
    THEN [tbl EXCEPT ![text_id].annotator_id = user_id, ![text_id].status = PROGRESS]
    ELSE tbl

\* the table after update_status
update_status(tbl, text_id, status, reviewer_id) ==
    IF text_id \in DOMAIN tbl
    THEN [tbl EXCEPT ![text_id].status = status,
                     ![text_id].reviewer_id =
                         IF reviewer_id # NULL THEN reviewer_id ELSE @]
    ELSE tbl

\* the table after the reset of cancel_work and skip_text
release_text(tbl, text_id) ==
    [tbl EXCEPT ![text_id].annotator_id = NULL, ![text_id].status = INITIALIZED]

\* UserRejectedTextCRUD.create on a table without the unique constraint
rejected_create_unconstrained(rej, user_id, text_id) ==
    rej (+) SetToBag({[user_id |-> user_id, text_id |-> text_id]})

\* the table after UserRejectedTextCRUD.create: the unique constraint makes a
\* repeated pair an IntegrityError, which is rolled back
rejected_create(rej, user_id, text_id) ==
    IF BagIn([user_id |-> user_id, text_id |-> text_id], rej)
    THEN rej
    ELSE rej (+) SetToBag({[user_id |-> user_id, text_id |-> text_id]})

\* the texts a user really holds: annotator of a text in progress
HeldBy(u) ==
    {t \in TextIds : texts[t].annotator_id = u /\ texts[t].status = PROGRESS}

(* ------------------------------------------------- routers/texts: upload *)
\* POST /texts/ : the text is uploaded by the caller; a caller of role user is
\* made its annotator at once
CreateText(u, source) ==
    /\ req[u].pc = "idle"
    /\ LET id == Len(texts) + 1
           created == Append(texts, NewText(source, u))
       IN /\ texts' = IF UserRole(u) = "user"
                      THEN assign_text_to_user(created, id, u)
                      ELSE created
          /\ resp' = Response("create_text", u, NULL, 0, 201, id)
    /\ UNCHANGED <<annotations, reviews, rejected, req, skipped>>

\* POST /bulk-upload/upload-files, one file: a pool text (no uploader) with n
\* system annotations (no annotator); the status stays initialized
BulkUpload(u, source, n) ==
    /\ UserRole(u) = "admin"
    /\ req[u].pc = "idle"
    /\ LET id == Len(texts) + 1
       IN /\ texts' = Append(texts, NewText(source, NULL))
          /\ annotations' = annotations \o
                [i \in 1..n |-> [text_id |-> id, annotator_id |-> NULL,
                                 label |-> 1, start_position |-> 0,
                                 end_position |-> 1, deleted |-> FALSE]]
          /\ resp' = Response("bulk_upload", u, NULL, n, 200, id)
    /\ UNCHANGED <<reviews, rejected, req, skipped>>

(* --------------------------------------------- routers/texts: start-work *)
\* the answer of POST /texts/start-work, or the rest of submit-task's answer
Reply(u, op, arg, t) ==
    IF op = "submit_task"
    THEN Response("submit_task", u, arg, 0, 200, t)
    ELSE Response("start_work", u, NULL, 0, IF t = NULL THEN 404 ELSE 200, t)

\* the first query of start_work without the early return for the role user
WorkInProgressStepAnyRole(u, op, arg) ==
    LET wip == get_work_in_progress(texts, u, UserRole(u))
    IN IF wip # {}
       THEN /\ \E t \in wip : resp' = Reply(u, op, arg, t)
            /\ req' = [req EXCEPT ![u] = Idle]
       ELSE /\ req' = [req EXCEPT ![u] =
                          [op |-> op, pc |-> "select", text |-> arg, sel |-> NULL]]
            /\ resp' = NoResponse

\* start_work, first query: the work in progress
WorkInProgressStep(u, op, arg) ==
    LET wip == get_work_in_progress(texts, u, UserRole(u))
    IN IF wip # {}
       THEN /\ \E t \in wip : resp' = Reply(u, op, arg, t)
            /\ req' = [req EXCEPT ![u] = Idle]
       ELSE IF UserRole(u) = "user"
       THEN /\ resp' = Reply(u, op, arg, NULL)
            /\ req' = [req EXCEPT ![u] = Idle]
       ELSE /\ req' = [req EXCEPT ![u] =
                          [op |-> op, pc |-> "select", text |-> arg, sel |-> NULL]]
            /\ resp' = NoResponse

StartWork(u) ==
    /\ req[u].pc = "idle"
    /\ WorkInProgressStep(u, "start_work", NULL)
    /\ UNCHANGED <<texts, annotations, reviews, rejected, skipped>>

\* start_work, second query: a text nobody holds, which the user did not reject
StartWorkSelect(u) ==
    /\ req[u].pc = "select"
    /\ LET found == get_unassigned_text_for_user(texts, rejected, u, UserRole(u))
       IN IF found # {}
          THEN /\ \E t \in found :
                    req' = [req EXCEPT ![u] =
                               [op |-> req[u].op, pc |-> "assign",
                                text |-> req[u].text, sel |-> t]]
               /\ resp' = NoResponse
          ELSE /\ resp' = Reply(u, req[u].op, req[u].text, NULL)
               /\ req' = [req EXCEPT ![u] = Idle]
    /\ UNCHANGED <<texts, annotations, reviews, rejected, skipped>>

\* start_work, the write: assign_text_to_user
StartWorkAssign(u) ==
    /\ req[u].pc = "assign"
    /\ texts' = assign_text_to_user(texts, req[u].sel, u)
    /\ resp' = Reply(u, req[u].op, req[u].text, req[u].sel)
    /\ req' = [req EXCEPT ![u] = Idle]
    /\ UNCHANGED <<annotations, reviews, rejected, skipped>>

(* ------------------------------------------------ crud/user_rejected_text *)
\* a call of UserRejectedTextCRUD.create: it returns the new row (n = 1), or
\* None (n = 0) after the IntegrityError of a repeated pair or of a text that
\* does not exist, and raises nothing
RecordRejection(u, text_id) ==
    /\ LET row == [user_id |-> u, text_id |-> text_id]
           stored == text_id \in TextIds /\ ~BagIn(row, rejected)
       IN /\ rejected' = IF text_id \in TextIds
                          THEN rejected_create(rejected, u, text_id)
                          ELSE rejected
          /\ resp' = Response("rejected_create", u, text_id,
                              IF stored THEN 1 ELSE 0, 200, NULL)
    /\ UNCHANGED <<texts, annotations, reviews, req, skipped>>

(* ---------------------------------------------- routers/texts: skip-text *)
\* POST /texts/skip-text: skip_text looks its caller's work up without the role
SkipText(u) ==
    /\ req[u].pc = "idle"
    /\ skipped' = skipped \cup {<<u, t>> : t \in HeldBy(u)}
    /\ LET current == get_work_in_progress(texts, u, NoRole)
       IN IF current = {}
          THEN /\ resp' = Response("skip_text", u, NULL, 0, 404, NULL)
               /\ UNCHANGED <<texts, rejected>>
          ELSE \E c \in current :
                 LET rej == rejected_create(rejected, u, c)
                     released == release_text(texts, c)
                     next == get_unassigned_text_for_user(released, rej, u, UserRole(u))
                 IN /\ rejected' = rej
                    /\ IF next = {}
                       THEN /\ texts' = released
                            /\ resp' = Response("skip_text", u, NULL, 0, 404, NULL)
                       ELSE \E t \in next :
                              /\ texts' = assign_text_to_user(released, t, u)
                              /\ resp' = Response("skip_text", u, NULL, 0, 200, t)
    /\ UNCHANGED <<annotations, reviews, req>>

(* -------------------------------------------- routers/texts: cancel-work *)
\* the value TextCRUD.cancel_work returns: whether it found the row to reset
cancel_work_result(tbl, user_id, text_id) ==
    /\ text_id \in DOMAIN tbl
    /\ tbl[text_id].annotator_id = user_id
    /\ tbl[text_id].status = PROGRESS

\* cancel_work without the filter on the annotator
cancel_work_any_user(tbl, user_id, text_id) ==
    IF text_id \in DOMAIN tbl /\ tbl[text_id].status = PROGRESS
    THEN release_text(tbl, text_id)
    ELSE tbl

\* the table after TextCRUD.cancel_work
cancel_work(tbl, user_id, text_id) ==
    IF /\ text_id \in DOMAIN tbl
       /\ tbl[text_id].annotator_id = user_id
       /\ tbl[text_id].status = PROGRESS
    THEN release_text(tbl, text_id)
    ELSE tbl

\* POST /texts/{text_id}/cancel-work: answers 200 whatever cancel_work returns
CancelWork(u, text_id) ==
    /\ req[u].pc = "idle"
    /\ IF text_id \notin TextIds
       THEN /\ resp' = Response("cancel_work", u, text_id, 0, 404, NULL)
            /\ UNCHANGED texts
       ELSE /\ texts' = cancel_work(texts, u, text_id)
            /\ resp' = Response("cancel_work", u, text_id, 0, 200, NULL)
    /\ UNCHANGED <<annotations, reviews, rejected, req, skipped>>

(* -------------------------------------------- routers/texts: submit-task *)
\* submit-task without the check that the caller is the annotator of the text
SubmitTaskAnyUser(u, text_id) ==
    /\ req[u].pc = "idle"
    /\ IF text_id \notin TextIds
       THEN /\ resp' = Response("submit_task", u, text_id, 0, 404, NULL)
            /\ UNCHANGED <<texts, req>>
       ELSE IF texts[text_id].status # PROGRESS
       THEN /\ resp' = Response("submit_task", u, text_id, 0, 400, NULL)
            /\ UNCHANGED <<texts, req>>
       ELSE /\ texts' = update_status(texts, text_id, ANNOTATED, NULL)
            /\ req' = [req EXCEPT ![u] =
                          [op |-> "submit_task", pc |-> "wip", text |-> text_id, sel |-> NULL]]
            /\ resp' = NoResponse
    /\ UNCHANGED <<annotations, reviews, rejected, skipped>>

\* POST /texts/{text_id}/submit-task: the checks and update_status; start_work
\* follows as the handler's next database operations
SubmitTask(u, text_id) ==
    /\ req[u].pc = "idle"
    /\ IF text_id \notin TextIds
       THEN /\ resp' = Response("submit_task", u, text_id, 0, 404, NULL)
            /\ UNCHANGED <<texts, req>>
       ELSE IF texts[text_id].annotator_id # u
       THEN /\ resp' = Response("submit_task", u, text_id, 0, 403, NULL)
            /\ UNCHANGED <<texts, req>>
       ELSE IF texts[text_id].status # PROGRESS
       THEN /\ resp' = Response("submit_task", u, text_id, 0, 400, NULL)
            /\ UNCHANGED <<texts, req>>
       ELSE /\ texts' = update_status(texts, text_id, ANNOTATED, NULL)
            /\ req' = [req EXCEPT ![u] =
                          [op |-> "submit_task", pc |-> "wip", text |-> text_id, sel |-> NULL]]
            /\ resp' = NoResponse
    /\ UNCHANGED <<annotations, reviews, rejected, skipped>>

\* submit-task, after update_status: start_work for the next task
SubmitTaskNext(u) ==
    /\ req[u].pc = "wip"
    /\ WorkInProgressStep(u, "submit_task", req[u].text)
    /\ UNCHANGED <<texts, annotations, reviews, rejected, skipped>>

\* update-task without the check on the current status
UpdateTaskAnyStatus(u, text_id) ==
    /\ req[u].pc = "idle"
    /\ IF text_id \notin TextIds
       THEN /\ resp' = Response("update_task", u, text_id, 0, 404, NULL)
            /\ UNCHANGED texts
       ELSE IF texts[text_id].annotator_id # u
       THEN /\ resp' = Response("update_task", u, text_id, 0, 403, NULL)
            /\ UNCHANGED texts
       ELSE /\ texts' = update_status(texts, text_id, ANNOTATED, NULL)
            /\ resp' = Response("update_task", u, text_id, 0, 200, text_id)
    /\ UNCHANGED <<annotations, reviews, rejected, req, skipped>>

\* POST /texts/{text_id}/update-task: the annotator reopens a completed task
UpdateTask(u, text_id) ==
    /\ req[u].pc = "idle"
    /\ IF text_id \notin TextIds
       THEN /\ resp' = Response("update_task", u, text_id, 0, 404, NULL)
            /\ UNCHANGED texts
       ELSE IF texts[text_id].annotator_id # u
       THEN /\ resp' = Response("update_task", u, text_id, 0, 403, NULL)
            /\ UNCHANGED texts
       ELSE IF texts[text_id].status \notin {ANNOTATED, REVIEWED}
       THEN /\ resp' = Response("update_task", u, text_id, 0, 400, NULL)
            /\ UNCHANGED texts
       ELSE /\ texts' = update_status(texts, text_id, ANNOTATED, NULL)
            /\ resp' = Response("update_task", u, text_id, 0, 200, text_id)
    /\ UNCHANGED <<annotations, reviews, rejected, req, skipped>>

\* PUT /texts/{text_id}/status: a reviewer or an administrator sets any status
UpdateTextStatus(u, text_id, new_status) ==
    /\ req[u].pc = "idle"
    /\ IF UserRole(u) \notin {"admin", "reviewer"}
       THEN /\ resp' = Response("update_text_status", u, text_id, 0, 403, NULL)
            /\ UNCHANGED texts
       ELSE IF new_status \notin VALID_STATUSES
       THEN /\ resp' = Response("update_text_status", u, text_id, 0, 400, NULL)
            /\ UNCHANGED texts
       ELSE IF text_id \notin TextIds
       THEN /\ resp' = Response("update_text_status", u, text_id, 0, 404, NULL)
            /\ UNCHANGED texts
       ELSE /\ texts' = update_status(texts, text_id, new_status,
                                      IF new_status = REVIEWED THEN u ELSE NULL)
            /\ resp' = Response("update_text_status", u, text_id, 0, 200, text_id)
    /\ UNCHANGED <<annotations, reviews, rejected, req, skipped>>

(* ------------------------------------------------------ crud/annotation *)
\* the annotations of a text that are in the table
AnnotationsOf(ann, text_id) ==
    {a \in DOMAIN ann : ~ann[a].deleted /\ ann[a].text_id = text_id}

\* is_annotation_agreed comparing with a string no review carries
is_annotation_agreed_typo(rev, annotation_id) ==
    \E r \in rev : r.annotation_id = annotation_id /\ r.decision = "agreed"

is_annotation_agreed(rev, annotation_id) ==
    \E r \in rev : r.annotation_id = annotation_id /\ r.decision = "agree"

\* the texts after AnnotationCRUD.create: an initialized text goes to progress
create_promote(tbl, text_id) ==
    IF text_id \in DOMAIN tbl /\ tbl[text_id].status = INITIALIZED
    THEN [tbl EXCEPT ![text_id].status = PROGRESS]
    ELSE tbl

\* the "valid" entry of the result of validate_annotation_positions
validate_annotation_positions(tbl, text_id, start_pos, end_pos) ==
    /\ text_id \in DOMAIN tbl
    /\ ~(start_pos < 0 \/ end_pos < 0)
    /\ ~(start_pos >= ContentLength)
    /\ ~(end_pos > ContentLength)
    /\ ~(start_pos >= end_pos)

\* Python's  v or d  on an optional integer: None and 0 are both false
PyOr(v, d) == IF v = Unset \/ v = 0 THEN d ELSE v

\* AnnotationCRUD.delete counts the remaining annotations in a session that
\* does not flush before a query (database.py, autoflush=False): the row
\* passed to db.delete is still counted
remaining_annotations(ann, text_id, annotation_id) ==
    Cardinality(AnnotationsOf(ann, text_id))

\* the texts after AnnotationCRUD.delete
delete_demote(tbl, ann, annotation_id) ==
    LET text_id == ann[annotation_id].text_id
    IN IF /\ remaining_annotations(ann, text_id, annotation_id) = 0
          /\ text_id \in DOMAIN tbl
          /\ tbl[text_id].status = ANNOTATED
       THEN [tbl EXCEPT ![text_id].status = INITIALIZED]
       ELSE tbl

\* the annotations of a text that a user owns
UserAnnotations(ann, text_id, annotator_id) ==
    {a \in AnnotationsOf(ann, text_id) : ann[a].annotator_id = annotator_id}

\* the annotations after delete_user_annotations
delete_user_annotations(ann, text_id, annotator_id) ==
    [a \in DOMAIN ann |->
        IF a \in UserAnnotations(ann, text_id, annotator_id) THEN Tombstone ELSE ann[a]]

\* the texts after delete_user_annotations: the count of the rows of the text,
\* taken before the deletions are flushed, less the number of deleted rows
revert_text(tbl, ann, text_id, annotator_id) ==
    LET remaining == Cardinality(AnnotationsOf(ann, text_id))
                        - Cardinality(UserAnnotations(ann, text_id, annotator_id))
    IN IF remaining = 0 /\ text_id \in DOMAIN tbl
       THEN release_text(tbl, text_id)
       ELSE tbl

(* ---------------------------------------------------- routers/annotations *)
\* POST /annotations/; the body is validated by AnnotationBase first
CreateAnnotation(u, text_id, label, start_pos, end_pos) ==
    /\ req[u].pc = "idle"
    /\ LET role == UserRole(u)
           refuse(code) ==
               /\ resp' = Response("create_annotation", u, text_id, 0, code, NULL)
               /\ UNCHANGED <<texts, annotations>>
       IN IF start_pos < 0 \/ end_pos < 0 \/ end_pos <= start_pos
          THEN refuse(422)
          ELSE IF role = "user" /\ text_id \notin TextIds
          THEN refuse(404)
          ELSE IF role = "user" /\ texts[text_id].uploaded_by # u
          THEN refuse(403)
          ELSE IF role \notin {"admin", "annotator", "user"}
          THEN refuse(403)
          ELSE IF ~validate_annotation_positions(texts, text_id, start_pos, end_pos)
          THEN refuse(400)
          ELSE /\ annotations' = Append(annotations,
                      [text_id |-> text_id, annotator_id |-> u,
                       label |-> label, start_position |-> start_pos,
                       end_position |-> end_pos, deleted |-> FALSE])
               /\ texts' = create_promote(texts, text_id)
               /\ resp' = Response("create_annotation", u,
                                   Len(annotations) + 1, 0, 201, text_id)
    /\ UNCHANGED <<reviews, rejected, req, skipped>>

\* PUT /annotations/{annotation_id}
UpdateAnnotation(u, annotation_id, label, start_in, end_in) ==
    /\ req[u].pc = "idle"
    /\ LET refuse(code) ==
               /\ resp' = Response("update_annotation", u, annotation_id, 0, code, NULL)
               /\ UNCHANGED annotations
       IN IF annotation_id \notin AnnotationIds
          THEN refuse(404)
          ELSE IF annotations[annotation_id].annotator_id # u /\ UserRole(u) # "admin"
          THEN refuse(403)
          ELSE IF is_annotation_agreed(reviews, annotation_id)
          THEN refuse(400)
          ELSE IF /\ (start_in # Unset \/ end_in # Unset)
                  /\ ~validate_annotation_positions(texts,
                         annotations[annotation_id].text_id,
                         PyOr(start_in, annotations[annotation_id].start_position),
                         PyOr(end_in, annotations[annotation_id].end_position))
          THEN refuse(400)
          ELSE /\ annotations' =
                     [annotations EXCEPT ![annotation_id] =
                        [@ EXCEPT !.label = label,
                                  !.start_position = IF start_in = Unset THEN @ ELSE start_in,
                                  !.end_position = IF end_in = Unset THEN @ ELSE end_in]]
               /\ resp' = Response("update_annotation", u, annotation_id, 0, 200,
                                   annotations[annotation_id].text_id)
    /\ UNCHANGED <<texts, reviews, rejected, req, skipped>>

\* DELETE /annotations/{annotation_id}; the reviews of the row go with it
DeleteAnnotation(u, annotation_id) ==
    /\ req[u].pc = "idle"
    /\ LET refuse(code) ==
               /\ resp' = Response("delete_annotation", u, annotation_id, 0, code, NULL)
               /\ UNCHANGED <<texts, annotations, reviews>>
       IN IF annotation_id \notin AnnotationIds
          THEN refuse(404)
          ELSE IF /\ annotations[annotation_id].annotator_id # NULL
                  /\ annotations[annotation_id].annotator_id # u
                  /\ UserRole(u) # "admin"
          THEN refuse(403)
          ELSE IF is_annotation_agreed(reviews, annotation_id)
          THEN refuse(400)
          ELSE /\ annotations' = [annotations EXCEPT ![annotation_id] = Tombstone]
               /\ reviews' = {r \in reviews : r.annotation_id # annotation_id}
               /\ texts' = delete_demote(texts, annotations, annotation_id)
               /\ resp' = Response("delete_annotation", u, annotation_id, 0, 204,
                                   annotations[annotation_id].text_id)
    /\ UNCHANGED <<rejected, req, skipped>>

\* PUT and DELETE /annotations/{annotation_id} as their two database steps:
\* the handler reads the row and the agree reviews, and writes afterwards
\* without a lock.  AnnotationCheck is the reads of either handler.
AnnotationCheck(u, op, annotation_id) ==
    /\ req[u].pc = "idle"
    /\ LET refuse(code) ==
               /\ resp' = Response(op, u, annotation_id, 0, code, NULL)
               /\ UNCHANGED req
       IN IF annotation_id \notin AnnotationIds
          THEN refuse(404)
          ELSE IF /\ annotations[annotation_id].annotator_id # u
                  /\ UserRole(u) # "admin"
                  /\ (op = "delete_annotation"
                         => annotations[annotation_id].annotator_id # NULL)
          THEN refuse(403)
          ELSE IF is_annotation_agreed(reviews, annotation_id)
          THEN refuse(400)
          ELSE /\ req' = [req EXCEPT ![u] =
                             [op |-> op, pc |-> "write", text |-> NULL,
                              sel |-> annotation_id]]
               /\ resp' = NoResponse
    /\ UNCHANGED <<texts, annotations, reviews, rejected, skipped>>

\* the write of update_annotation: AnnotationCRUD.update with the label of the
\* request body
UpdateAnnotationWrite(u, label) ==
    /\ req[u].pc = "write" /\ req[u].op = "update_annotation"
    /\ LET annotation_id == req[u].sel
       IN IF annotation_id \notin AnnotationIds
          THEN /\ resp' = Response("update_annotation", u, annotation_id, 0, 500, NULL)
               /\ UNCHANGED annotations
          ELSE /\ annotations' = [annotations EXCEPT ![annotation_id].label = label]
               /\ resp' = Response("update_annotation", u, annotation_id, 0, 200,
                                   annotations[annotation_id].text_id)
    /\ req' = [req EXCEPT ![u] = Idle]
    /\ UNCHANGED <<texts, reviews, rejected, skipped>>

\* the write of delete_annotation: AnnotationCRUD.delete
DeleteAnnotationWrite(u) ==
    /\ req[u].pc = "write" /\ req[u].op = "delete_annotation"
    /\ LET annotation_id == req[u].sel
       IN IF annotation_id \notin AnnotationIds
          THEN /\ resp' = Response("delete_annotation", u, annotation_id, 0, 204, NULL)
               /\ UNCHANGED <<texts, annotations, reviews>>
          ELSE /\ annotations' = [annotations EXCEPT ![annotation_id] = Tombstone]
               /\ reviews' = {r \in reviews : r.annotation_id # annotation_id}
               /\ texts' = delete_demote(texts, annotations, annotation_id)
               /\ resp' = Response("delete_annotation", u, annotation_id, 0, 204,
                                   annotations[annotation_id].text_id)
    /\ req' = [req EXCEPT ![u] = Idle]
    /\ UNCHANGED <<rejected, skipped>>

\* DELETE /annotations/text/{text_id}/my-annotations
DeleteMyAnnotations(u, text_id) ==
    /\ req[u].pc = "idle"
    /\ IF text_id \notin TextIds
       THEN /\ resp' = Response("delete_my_annotations", u, text_id, 0, 404, NULL)
            /\ UNCHANGED <<texts, annotations, reviews>>
       ELSE LET mine == UserAnnotations(annotations, text_id, u)
            IN /\ annotations' = delete_user_annotations(annotations, text_id, u)
               /\ reviews' = {r \in reviews : r.annotation_id \notin mine}
               /\ texts' = revert_text(texts, annotations, text_id, u)
               /\ resp' = Response("delete_my_annotations", u, text_id,
                                   Cardinality(mine), 200, text_id)
    /\ UNCHANGED <<rejected, req, skipped>>

\* POST /texts/{text_id}/revert-work
RevertWork(u, text_id) ==
    /\ req[u].pc = "idle"
    /\ LET refuse(code) ==
               /\ resp' = Response("revert_work", u, text_id, 0, code, NULL)
               /\ UNCHANGED <<texts, annotations, reviews>>
       IN IF text_id \notin TextIds
          THEN refuse(404)
          ELSE IF texts[text_id].annotator_id # u
          THEN refuse(403)
          ELSE IF texts[text_id].status \notin {ANNOTATED, REVIEWED}
          THEN refuse(400)
          ELSE LET mine == UserAnnotations(annotations, text_id, u)
               IN /\ annotations' = delete_user_annotations(annotations, text_id, u)
                  /\ reviews' = {r \in reviews : r.annotation_id \notin mine}
                  /\ texts' = revert_text(texts, annotations, text_id, u)
                  /\ resp' = Response("revert_work", u, text_id,
                                      Cardinality(mine), 200, text_id)
    /\ UNCHANGED <<rejected, req, skipped>>

(* ----------------------------------------------- crud/annotation_review *)
\* create_or_update_review that always inserts a row
create_review_always(rev, annotation_id, reviewer_id, decision) ==
    rev \cup {[annotation_id |-> annotation_id, reviewer_id |-> reviewer_id,
               decision |-> decision]}

\* the reviews after create_or_update_review: one row per (annotation, reviewer)
create_or_update_review(rev, annotation_id, reviewer_id, decision) ==
    {r \in rev : ~(r.annotation_id = annotation_id /\ r.reviewer_id = reviewer_id)}
    \cup {[annotation_id |-> annotation_id, reviewer_id |-> reviewer_id,
           decision |-> decision]}

\* a review of an annotation that is not in the table breaks the foreign key
\* of annotation_reviews.annotation_id
ForeignKeyOk(ann, annotation_id) ==
    annotation_id \in DOMAIN ann /\ ~ann[annotation_id].deleted

\* the decisions submit_reviews stores before it stops: all of them, or those
\* before the first one that breaks the foreign key (each one is committed)
StoredPrefix(ann, decisions) ==
    IF \A i \in DOMAIN decisions : ForeignKeyOk(ann, decisions[i].annotation_id)
    THEN Len(decisions)
    ELSE (CHOOSE i \in DOMAIN decisions :
            /\ ~ForeignKeyOk(ann, decisions[i].annotation_id)
            /\ \A j \in 1..(i - 1) : ForeignKeyOk(ann, decisions[j].annotation_id)) - 1

RECURSIVE submit_reviews(_, _, _, _)
\* the reviews after the first k decisions of submit_reviews
submit_reviews(rev, reviewer_id, decisions, k) ==
    IF k = 0
    THEN rev
    ELSE create_or_update_review(submit_reviews(rev, reviewer_id, decisions, k - 1),
                                 decisions[k].annotation_id, reviewer_id,
                                 decisions[k].decision)

\* get_review_status(...)["total_annotations"]
total_annotations(ann, text_id) == Cardinality(AnnotationsOf(ann, text_id))

\* the test of submit_review accepting more decisions than annotations
all_reviewed_at_least(n, total) == n >= total

\* the test of submit_review that all annotations are being reviewed
all_reviewed(n, total) == n = total

\* the number of disagreements submit_review counts: in the request
disagreed_count(decisions) ==
    Cardinality({i \in DOMAIN decisions : decisions[i].decision = "disagree"})

\* get_texts_for_review without the filter on the annotator
get_texts_for_review_any_annotator(tbl, reviewer_id) ==
    {t \in DOMAIN tbl : /\ tbl[t].status = ANNOTATED
                        /\ tbl[t].uploaded_by = NULL}

\* rows matched by get_texts_for_review; annotator_id != reviewer_id is not
\* true of a NULL annotator
get_texts_for_review(tbl, reviewer_id) ==
    {t \in DOMAIN tbl : /\ tbl[t].status = ANNOTATED
                        /\ tbl[t].uploaded_by = NULL
                        /\ tbl[t].annotator_id # NULL
                        /\ tbl[t].annotator_id # reviewer_id}

(* -------------------------------------------------------- routers/reviews *)
\* POST /reviews/annotation/{annotation_id}
ReviewAnnotation(u, annotation_id, decision) ==
    /\ req[u].pc = "idle"
    /\ LET refuse(code) ==
               /\ resp' = Response("review_annotation", u, annotation_id, 0, code, NULL)
               /\ UNCHANGED reviews
       IN IF UserRole(u) \notin {"admin", "reviewer"}
          THEN refuse(403)
          ELSE IF decision \notin {"agree", "disagree"}
          THEN refuse(400)
          ELSE IF ~ForeignKeyOk(annotations, annotation_id)
          THEN refuse(500)
          ELSE /\ reviews' = create_or_update_review(reviews, annotation_id, u, decision)
               /\ resp' = Response("review_annotation", u, annotation_id, 0, 200,
                                   annotations[annotation_id].text_id)
    /\ UNCHANGED <<texts, annotations, rejected, req, skipped>>

\* GET /reviews/texts-for-review and GET /texts/for-review: the body is the
\* list of texts, here the set of their ids
GetTextsForReview(u) ==
    /\ req[u].pc = "idle"
    /\ IF UserRole(u) \notin {"admin", "reviewer"}
       THEN resp' = Response("texts_for_review", u, NULL, 0, 403, {})
       ELSE LET listed == get_texts_for_review(texts, u)
            IN resp' = Response("texts_for_review", u, NULL,
                                Cardinality(listed), 200, listed)
    /\ UNCHANGED <<texts, annotations, reviews, rejected, req, skipped>>

\* DELETE /reviews/{review_id}: the review is named by its unique pair
\* (annotation_id, reviewer_id)
DeleteReview(u, annotation_id, reviewer_id) ==
    /\ req[u].pc = "idle"
    /\ LET review == {r \in reviews : /\ r.annotation_id = annotation_id
                                      /\ r.reviewer_id = reviewer_id}
           refuse(code) ==
               /\ resp' = Response("delete_review", u, annotation_id, 0, code, NULL)
               /\ UNCHANGED reviews
       IN IF UserRole(u) \notin {"admin", "reviewer"}
          THEN refuse(403)
          ELSE IF review = {}
          THEN refuse(404)
          ELSE IF reviewer_id # u
          THEN refuse(403)
          ELSE /\ reviews' = reviews \ review
               /\ resp' = Response("delete_review", u, annotation_id, 0, 200, NULL)
    /\ UNCHANGED <<texts, annotations, rejected, req, skipped>>

\* the decisions of a request: n of them, naming annotations of ids and with
\* decision strings of ds
DecisionLists(n, ids, ds) ==
    [1..n -> [annotation_id : ids, decision : ds]]

\* POST /reviews/submit with n decisions
SubmitReview(u, text_id, n, ids, ds) ==
    /\ req[u].pc = "idle"
    /\ LET refuse(code) ==
               /\ resp' = Response("submit_review", u, text_id, n, code, NULL)
               /\ UNCHANGED <<texts, reviews>>
       IN IF UserRole(u) \notin {"admin", "reviewer"}
          THEN refuse(403)
          ELSE IF text_id \notin TextIds
          THEN refuse(404)
          ELSE IF texts[text_id].status # ANNOTATED
          THEN refuse(400)
          ELSE IF ~all_reviewed(n, total_annotations(annotations, text_id))
          THEN refuse(400)
          ELSE \E decisions \in DecisionLists(n, ids, ds) :
                 LET k == StoredPrefix(annotations, decisions)
                     stored == submit_reviews(reviews, u, decisions, k)
                     status == IF disagreed_count(decisions) > 0
                               THEN REVIEWED_NEEDS_REVISION
                               ELSE REVIEWED
                     updated == update_status(texts, text_id, status, u)
                     next_texts == get_texts_for_review(updated, u)
                 IN /\ reviews' = stored
                    /\ IF k < n
                       THEN /\ texts' = texts
                            /\ resp' = Response("submit_review", u, text_id, n, 500, NULL)
                       ELSE /\ texts' = updated
                            /\ \E hint \in (IF next_texts = {} THEN {NULL} ELSE next_texts) :
                                  resp' = Response("submit_review", u, text_id, n, 200, hint)
    /\ UNCHANGED <<annotations, rejected, req, skipped>>

(* ------------------------------------------------------------ the models *)
\* The claim model: two annotators and an administrator race for the texts of
\* the pool; every start-work handler may stop between its database operations.
ClaimUsers == Annotators \cup Admins

Next ==
    \/ \E u \in Admins, s \in PoolSources :
          Len(texts) < MaxTexts /\ BulkUpload(u, s, 0)
    \/ \E u \in Admins :
          Len(texts) < MaxTexts /\ CreateText(u, OtherSource)
    \/ \E u \in ClaimUsers : StartWork(u)
    \/ \E u \in ClaimUsers : StartWorkSelect(u)
    \/ \E u \in ClaimUsers : StartWorkAssign(u)
    \/ \E u \in ClaimUsers, t \in 1..MaxTexts : CancelWork(u, t)

Spec == Init /\ [][Next]_vars

\* The skip model: one user of each role that can hold a text starts, skips
\* and cancels work.
SoloAnnotators == {1}
SkipUsers == SoloAnnotators \cup Admins \cup SelfUsers

NextSkip ==
    \/ \E u \in Admins, s \in PoolSources :
          Len(texts) < MaxTexts /\ BulkUpload(u, s, 0)
    \/ \E u \in SelfUsers, s \in UploadSources :
          Len(texts) < MaxTexts /\ CreateText(u, s)
    \/ \E u \in SkipUsers : StartWork(u)
    \/ \E u \in SkipUsers : StartWorkSelect(u)
    \/ \E u \in SkipUsers : StartWorkAssign(u)
    \/ \E u \in SkipUsers : SkipText(u)
    \/ \E u \in SkipUsers, t \in 1..MaxTexts : CancelWork(u, t)

SpecSkip == Init /\ [][NextSkip]_vars

\* The review model: an annotator annotates and submits the texts of the pool,
\* a reviewer reviews them; the administrator uploads and edits.
Labels == {1, 2}

NextReview ==
    \/ \E u \in Admins, n \in 0..1 :
          /\ Len(texts) < MaxReviewTexts
          /\ Len(annotations) + n <= MaxAnnotations
          /\ BulkUpload(u, BulkSource, n)
    \/ \E u \in SoloAnnotators : StartWork(u)
    \/ \E u \in SoloAnnotators : StartWorkSelect(u)
    \/ \E u \in SoloAnnotators : StartWorkAssign(u)
    \/ \E u \in SoloAnnotators, t \in 1..MaxReviewTexts :
          Len(annotations) < MaxAnnotations /\ CreateAnnotation(u, t, 1, 0, 1)
    \/ \E u \in SoloAnnotators \cup Admins, a \in 1..MaxAnnotations, l \in Labels :
          UpdateAnnotation(u, a, l, Unset, Unset)
    \/ \E u \in SoloAnnotators \cup Admins, a \in 1..MaxAnnotations :
          DeleteAnnotation(u, a)
    \/ \E u \in SoloAnnotators, t \in 1..MaxReviewTexts : SubmitTask(u, t)
    \/ \E u \in SoloAnnotators : SubmitTaskNext(u)
    \/ \E u \in SoloAnnotators, t \in 1..MaxReviewTexts : UpdateTask(u, t)
    \/ \E u \in Reviewers, a \in 1..MaxAnnotations, d \in SubmittedDecisions :
          ReviewAnnotation(u, a, d)
    \/ \E u \in Reviewers, t \in 1..MaxReviewTexts, n \in 0..MaxAnnotations :
          SubmitReview(u, t, n, 1..MaxAnnotations, SubmittedDecisions)
    \/ \E u \in Reviewers, t \in 1..MaxReviewTexts, s \in VALID_STATUSES :
          UpdateTextStatus(u, t, s)
    \/ \E u \in SoloAnnotators, t \in 1..MaxReviewTexts : RevertWork(u, t)
    \/ \E u \in SoloAnnotators, t \in 1..MaxReviewTexts : DeleteMyAnnotations(u, t)
    \/ \E u \in SoloAnnotators, t \in 1..MaxReviewTexts : CancelWork(u, t)
    \/ \E u \in Reviewers \cup Admins, a \in 1..MaxAnnotations, r \in Reviewers :
          DeleteReview(u, a, r)

SpecReview == Init /\ [][NextReview]_vars

\* The task model: two annotators claim, submit and reopen the texts of the
\* pool while a reviewer marks texts as reviewed.
TaskUsers == Annotators
ReviewOutcomes == {REVIEWED, REVIEWED_NEEDS_REVISION}

NextTask ==
    \/ \E u \in Admins :
          Len(texts) < MaxTexts /\ BulkUpload(u, BulkSource, 0)
    \/ \E u \in TaskUsers : StartWork(u)
    \/ \E u \in TaskUsers : StartWorkSelect(u)
    \/ \E u \in TaskUsers : StartWorkAssign(u)
    \/ \E u \in TaskUsers, t \in 1..MaxTexts : SubmitTask(u, t)
    \/ \E u \in TaskUsers : SubmitTaskNext(u)
    \/ \E u \in TaskUsers, t \in 1..MaxTexts : UpdateTask(u, t)
    \/ \E u \in Reviewers, t \in 1..MaxTexts, st \in ReviewOutcomes :
          UpdateTextStatus(u, t, st)

SpecTask == Init /\ [][NextTask]_vars

\* The decision model: a reviewer decides on the annotations uploaded with the
\* text of the pool, one at a time or in a submission, with requests that any
\* client can send.
NextDecide ==
    \/ \E u \in Admins, n \in 0..MaxAnnotations :
          /\ Len(texts) < MaxReviewTexts
          /\ BulkUpload(u, BulkSource, n)
    \/ \E u \in SoloAnnotators : StartWork(u)
    \/ \E u \in SoloAnnotators : StartWorkSelect(u)
    \/ \E u \in SoloAnnotators : StartWorkAssign(u)
    \/ \E u \in SoloAnnotators, t \in 1..MaxReviewTexts : SubmitTask(u, t)
    \/ \E u \in SoloAnnotators : SubmitTaskNext(u)
    \/ \E u \in SoloAnnotators, t \in 1..MaxReviewTexts : UpdateTask(u, t)
    \/ \E u \in Reviewers, a \in 1..(MaxAnnotations + 1), d \in Decisions :
          ReviewAnnotation(u, a, d)
    \/ \E u \in Reviewers, t \in 1..MaxReviewTexts, n \in 0..MaxAnnotations :
          SubmitReview(u, t, n, 1..(MaxAnnotations + 1), Decisions)

SpecDecide == Init /\ [][NextDecide]_vars

\* The span model: an annotator creates annotations on the text of the pool
\* and moves their positions, while another annotator may claim the text.
Positions == 0..(ContentLength + 1)
SpanClaimants == Annotators \ SoloAnnotators

NextSpan ==
    \/ \E u \in Admins :
          Len(texts) < MaxReviewTexts /\ BulkUpload(u, BulkSource, 0)
    \/ \E u \in SpanClaimants : StartWork(u)
    \/ \E u \in SpanClaimants : StartWorkSelect(u)
    \/ \E u \in SpanClaimants : StartWorkAssign(u)
    \/ \E u \in SoloAnnotators, t \in 1..MaxReviewTexts, s \in Positions, e \in Positions :
          Len(annotations) < MaxAnnotations /\ CreateAnnotation(u, t, 1, s, e)
    \/ \E u \in SoloAnnotators, a \in 1..MaxAnnotations,
          s \in Positions \cup {Unset}, e \in Positions \cup {Unset} :
          UpdateAnnotation(u, a, 1, s, e)

SpecSpan == Init /\ [][NextSpan]_vars

\* The offer model: an annotator and a reviewer both annotate texts of the
\* pool; the reviewer lists the texts to review and submits reviews. One text
\* more than in the assignment model: one under review, one to offer next and
\* one that the reviewer annotated.
OfferUsers == SoloAnnotators \cup Reviewers
OfferTexts == 1..(MaxTexts + 1)

NextOffer ==
    \/ \E u \in Admins :
          Len(texts) + 1 \in OfferTexts /\ BulkUpload(u, BulkSource, 0)
    \/ \E u \in OfferUsers : StartWork(u)
    \/ \E u \in OfferUsers : StartWorkSelect(u)
    \/ \E u \in OfferUsers : StartWorkAssign(u)
    \/ \E u \in OfferUsers, t \in OfferTexts : SubmitTask(u, t)
    \/ \E u \in OfferUsers : SubmitTaskNext(u)
    \/ \E u \in OfferUsers : GetTextsForReview(u)
    \/ \E u \in Reviewers, t \in OfferTexts :
          SubmitReview(u, t, 0, 1..MaxAnnotations, SubmittedDecisions)

SpecOffer == Init /\ [][NextOffer]_vars

\* The ledger model: rejections of the annotators are recorded while an
\* annotator starts, skips, cancels and submits work and a reviewer submits
\* reviews.
NextLedger ==
    \/ \E u \in Admins :
          Len(texts) < MaxTexts /\ BulkUpload(u, BulkSource, 0)
    \/ \E u \in Annotators, t \in 1..(MaxTexts + 1) : RecordRejection(u, t)
    \/ \E u \in SoloAnnotators : StartWork(u)
    \/ \E u \in SoloAnnotators : StartWorkSelect(u)
    \/ \E u \in SoloAnnotators : StartWorkAssign(u)
    \/ \E u \in SoloAnnotators : SkipText(u)
    \/ \E u \in SoloAnnotators, t \in 1..MaxTexts : CancelWork(u, t)
    \/ \E u \in SoloAnnotators, t \in 1..MaxTexts : SubmitTask(u, t)
    \/ \E u \in SoloAnnotators : SubmitTaskNext(u)
    \/ \E u \in Reviewers, t \in 1..MaxTexts :
          SubmitReview(u, t, 0, 1..MaxAnnotations, SubmittedDecisions)

SpecLedger == Init /\ [][NextLedger]_vars

\* The endorsement model: the owner of an annotation updates and deletes it
\* while a reviewer records decisions on it; the handlers of the owner may be
\* overtaken between their reads and their write.
AnnotationOps == {"update_annotation", "delete_annotation"}

NextEndorse ==
    \/ \E u \in Admins :
          Len(texts) < MaxReviewTexts /\ BulkUpload(u, BulkSource, 0)
    \/ \E u \in SoloAnnotators, t \in 1..MaxReviewTexts :
          Len(annotations) < MaxAnnotations /\ CreateAnnotation(u, t, 1, 0, 1)
    \/ \E u \in SoloAnnotators, op \in AnnotationOps, a \in 1..MaxAnnotations :
          AnnotationCheck(u, op, a)
    \/ \E u \in SoloAnnotators, l \in Labels : UpdateAnnotationWrite(u, l)
    \/ \E u \in SoloAnnotators : DeleteAnnotationWrite(u)
    \/ \E u \in Reviewers, a \in 1..MaxAnnotations, d \in SubmittedDecisions :
          ReviewAnnotation(u, a, d)

SpecEndorse == Init /\ [][NextEndorse]_vars

(* ------------------------------------------------ properties: assignment *)
\* C1: under every interleaving of start-work calls a text held in progress
\* by one user is never taken over by another: the annotator of a text in
\* progress changes only by being cleared.
C1_NoTakeover ==
    [][\A t \in TextIds :
          (texts[t].status = PROGRESS /\ texts[t].annotator_id # NULL)
              => texts'[t].annotator_id \in {NULL, texts[t].annotator_id}]_vars

\* the texts the selection of start-work may hand to u, as the specification
\* words it: initialized, unclaimed, not rejected by u, visible to u's role
Eligible(u) ==
    {d \in TextIds :
        /\ texts[d].status = INITIALIZED
        /\ texts[d].annotator_id = NULL
        /\ ~BagIn([user_id |-> u, text_id |-> d], rejected)
        /\ (UserRole(u) = "annotator" => texts[d].uploaded_by = NULL)}

\* C9: whenever start-work writes a new claim of u on d, d was eligible for u
\* in the state immediately before the write.
C9_ClaimedWasEligible ==
    [][\A u \in Users :
          (req[u].pc = "assign" /\ req'[u].pc = "idle")
              => req[u].sel \in Eligible(u)]_vars

C2_RejectionMonotonic ==
    [][\A p \in skipped :
          /\ ~(/\ resp'.op \in {"start_work", "skip_text"}
               /\ resp'.user = p[1]
               /\ resp'.code = 200
               /\ resp'.text = p[2])
          /\ (texts[p[2]].annotator_id # p[1] => texts'[p[2]].annotator_id # p[1])]_vars

\* C7: a skip call of a user u holding d in progress records (u, d) in the
\* rejection ledger and leaves d initialized with no annotator.
C7_SkipRecordsAndReleases ==
    [][\A u \in Users, d \in TextIds :
          (resp'.op = "skip_text" /\ resp'.user = u /\ d \in HeldBy(u))
              => /\ BagIn([user_id |-> u, text_id |-> d], rejected')
                 /\ texts'[d].status = INITIALIZED
                 /\ texts'[d].annotator_id = NULL]_vars

\* C8: a start-work call of a user who holds a text in progress returns a text
\* the user holds and changes no table; it does not go on to claim a text.
C8_IdempotentResumption ==
    [][\A u \in Users :
          (/\ req[u].pc = "idle"
           /\ HeldBy(u) # {}
           /\ \/ req'[u].op = "start_work"
              \/ (resp'.op = "start_work" /\ resp'.user = u))
              => /\ resp'.op = "start_work"
                 /\ resp'.user = u
                 /\ resp'.code = 200
                 /\ resp'.text \in HeldBy(u)
                 /\ req'[u].pc = "idle"
                 /\ texts' = texts]_vars

(* ---------------------------------------------------- properties: review *)
\* C3: in every reachable state the annotator of a text is set if and only if
\* its status is progress, annotated, reviewed or reviewed_needs_revision.
C3_AnnotatorIffStatus ==
    \A t \in TextIds :
        (texts[t].annotator_id # NULL)
            <=> (texts[t].status \in
                    {PROGRESS, ANNOTATED, REVIEWED, REVIEWED_NEEDS_REVISION})

\* C4: after a successful review submission on text t, the status of t is
\* reviewed if no review stored for an annotation of t is a disagreement, and
\* reviewed_needs_revision otherwise.
C4_StatusRecompute ==
    [][\A t \in TextIds :
          (resp'.op = "submit_review" /\ resp'.code = 200 /\ resp'.arg = t)
              => texts'[t].status =
                    IF \E r \in reviews' :
                          /\ r.annotation_id \in AnnotationsOf(annotations', t)
                          /\ r.decision = "disagree"
                    THEN REVIEWED_NEEDS_REVISION
                    ELSE REVIEWED]_vars

\* C5: a review submission by a reviewer on an existing text with a number
\* of decisions different from the number of annotations of the text is
\* answered with the validation error and changes no table.
C5_CompletenessGate ==
    [][(/\ resp'.op = "submit_review"
        /\ UserRole(resp'.user) \in {"reviewer", "admin"}
        /\ resp'.arg \in TextIds
        /\ resp'.n # Cardinality({a \in AnnotationIds : annotations[a].text_id = resp'.arg}))
          => /\ resp'.code = 400
             /\ UNCHANGED <<texts, annotations, reviews, rejected>>]_vars

\* C5 witness: a submission on a text in status annotated was refused because
\* of the number of its decisions.
C5_Witness ==
    /\ resp.op = "submit_review"
    /\ resp.code = 400
    /\ resp.arg \in TextIds
    /\ texts[resp.arg].status = ANNOTATED
    /\ resp.n # Cardinality({a \in AnnotationIds : annotations[a].text_id = resp.arg})

\* annotation a has at least one agree review
Endorsed(a) ==
    \E r \in reviews : r.annotation_id = a /\ r.decision = "agree"

\* C6: an update or a deletion of an annotation that has an agree review,
\* called by its owner or by an administrator, is answered with the conflict
\* error and leaves the annotation, its reviews and its text unchanged.
C6_EndorsementImmutable ==
    [][\A a \in AnnotationIds :
          (/\ Endorsed(a)
           /\ resp'.op \in {"update_annotation", "delete_annotation"}
           /\ resp'.arg = a
           /\ \/ resp'.user = annotations[a].annotator_id
              \/ UserRole(resp'.user) = "admin")
              => /\ resp'.code = 400
                 /\ UNCHANGED <<texts, annotations, reviews>>]_vars

\* C6 witness: the owner of an annotation with an agree review was refused
\* its deletion.
C6_Witness ==
    \E a \in AnnotationIds :
        /\ Endorsed(a)
        /\ annotations[a].annotator_id # NULL
        /\ resp = Response("delete_annotation", annotations[a].annotator_id, a, 0, 400, NULL)

(* ------------------------------------------- properties: task lifecycle *)
\* C11: when a user creates the first annotation of a text in status
\* initialized, the text moves to progress and that user becomes its annotator.
C11_AutoPromotion ==
    [][\A t \in TextIds :
          (/\ resp'.op = "create_annotation"
           /\ resp'.code = 201
           /\ resp'.text = t
           /\ texts[t].status = INITIALIZED
           /\ AnnotationsOf(annotations, t) = {})
              => /\ texts'[t].status = PROGRESS
                 /\ texts'[t].annotator_id = resp'.user]_vars

\* C12: when a deletion removes the last annotation of a text in status
\* annotated, the text becomes initialized and keeps its annotator.
C12_LastDeleteDemotes ==
    [][\A a \in AnnotationIds :
          LET t == annotations[a].text_id
          IN (/\ resp'.op = "delete_annotation"
              /\ resp'.code = 204
              /\ resp'.arg = a
              /\ t \in TextIds
              /\ texts[t].status = ANNOTATED
              /\ AnnotationsOf(annotations, t) = {a})
                 => /\ texts'[t].status = INITIALIZED
                    /\ texts'[t].annotator_id = texts[t].annotator_id]_vars

\* C13: the annotator of a text in status reviewed_needs_revision can resubmit
\* it: an update-task or submit-task call of that annotator on the text
\* succeeds and sets the status to annotated.
C13_ResubmitAfterRevision ==
    [][\A t \in TextIds :
          (/\ texts[t].status = REVIEWED_NEEDS_REVISION
           /\ texts[t].annotator_id # NULL
           /\ req[texts[t].annotator_id].pc = "idle"
           /\ resp'.op \in {"update_task", "submit_task"}
           /\ resp'.arg = t
           /\ resp'.user = texts[t].annotator_id)
              => /\ resp'.code = 200
                 /\ texts'[t].status = ANNOTATED]_vars

\* a submit-task call of u on t is taken by this step
SubmitTaskCalled(u, t) ==
    /\ req[u].pc = "idle"
    /\ \/ (resp'.op = "submit_task" /\ resp'.user = u /\ resp'.arg = t)
       \/ (req'[u].op = "submit_task" /\ req'[u].pc = "wip" /\ req'[u].text = t)

\* C14: a submit-task call of u on t moves t from progress to annotated when
\* u is the annotator of t and t is in progress; otherwise it is answered with
\* the permission error (u is not the annotator) or the state-conflict error
\* (t is not in progress), no text changes and no claim is started for u.
C14_SubmitTask ==
    [][\A u \in Users, t \in TextIds :
          SubmitTaskCalled(u, t)
              => IF texts[t].annotator_id # u
                 THEN /\ resp' = Response("submit_task", u, t, 0, 403, NULL)
                      /\ texts' = texts
                      /\ req' = req
                 ELSE IF texts[t].status # PROGRESS
                 THEN /\ resp' = Response("submit_task", u, t, 0, 400, NULL)
                      /\ texts' = texts
                      /\ req' = req
                 ELSE /\ texts'[t].status = ANNOTATED
                      /\ texts'[t].annotator_id = u
                      /\ \A o \in TextIds \ {t} : texts'[o] = texts[o]]_vars

\* C14 witness: u was refused the submission of a text that another user
\* holds in progress.
C14_Witness ==
    \E u \in Users, t \in TextIds :
        /\ resp = Response("submit_task", u, t, 0, 403, NULL)
        /\ texts[t].annotator_id \notin {NULL, u}
        /\ texts[t].status = PROGRESS

\* C15: after a successful revert-work of u on t, where u owned annotations
\* of t, t is initialized with no annotator and u owns no annotation of t,
\* whatever other annotations t has.
C15_RevertReleases ==
    [][\A u \in Users, t \in TextIds :
          (/\ resp'.op = "revert_work" /\ resp'.user = u /\ resp'.arg = t
           /\ resp'.code = 200
           /\ UserAnnotations(annotations, t, u) # {})
              => /\ texts'[t].status = INITIALIZED
                 /\ texts'[t].annotator_id = NULL
                 /\ UserAnnotations(annotations', t, u) = {}]_vars

\* C16: a revert-work of u on t is answered with the permission error when u
\* is not the annotator of t, and fails when u owns no annotation of t; in
\* both cases no table changes.
C16_RevertFails ==
    [][\A u \in Users, t \in TextIds :
          (resp'.op = "revert_work" /\ resp'.user = u /\ resp'.arg = t)
              => /\ texts[t].annotator_id # u
                    => (resp'.code = 403 /\ UNCHANGED <<texts, annotations, reviews>>)
                 /\ (texts[t].annotator_id = u /\ UserAnnotations(annotations, t, u) = {})
                    => (resp'.code # 200 /\ UNCHANGED <<texts, annotations, reviews>>)]_vars

\* C17: a cancel-work call of u on t resets t to initialized with no annotator
\* when u is the annotator of t and t is in progress; in every other case no
\* text changes and cancel_work returns false.
C17_CancelWork ==
    [][\A u \in Users, t \in TextIds :
          (resp'.op = "cancel_work" /\ resp'.user = u /\ resp'.arg = t)
              => IF texts[t].annotator_id = u /\ texts[t].status = PROGRESS
                 THEN /\ cancel_work_result(texts, u, t)
                      /\ texts'[t].status = INITIALIZED
                      /\ texts'[t].annotator_id = NULL
                      /\ \A o \in TextIds \ {t} : texts'[o] = texts[o]
                 ELSE /\ ~cancel_work_result(texts, u, t)
                      /\ texts' = texts]_vars

\* C17 witness: u called cancel-work on a text that another user holds in
\* progress, and the text is still held.
C17_Witness ==
    \E u \in Users, t \in TextIds :
        /\ resp.op = "cancel_work" /\ resp.user = u /\ resp.arg = t
        /\ texts[t].annotator_id \notin {NULL, u}
        /\ texts[t].status = PROGRESS

\* C18: a cancel-work call whose ownership or status precondition fails is
\* answered with a permission (403) or state-conflict (400) error, never with
\* success, and changes no text.
C18_FailedTransitionRejected ==
    [][\A u \in Users, t \in TextIds :
          ( /\ resp'.op = "cancel_work" /\ resp'.user = u /\ resp'.arg = t
            /\ ~(texts[t].annotator_id = u /\ texts[t].status = PROGRESS) )
              => /\ resp'.code \in {400, 403}
                 /\ texts' = texts]_vars

\* C19: an update-task call of u on t sets t to annotated only when u is the
\* annotator of t and t is annotated or reviewed; by another user it is answered
\* 403 and in another status 400, and in both cases no text changes.
C19_UpdateTask ==
    [][\A u \in Users, t \in TextIds :
          (resp'.op = "update_task" /\ resp'.user = u /\ resp'.arg = t)
              => IF texts[t].annotator_id # u
                 THEN /\ resp'.code = 403
                      /\ texts' = texts
                 ELSE IF texts[t].status \notin {ANNOTATED, REVIEWED}
                 THEN /\ resp'.code = 400
                      /\ texts' = texts
                 ELSE /\ resp'.code = 200
                      /\ texts'[t].status = ANNOTATED
                      /\ texts'[t].annotator_id = u
                      /\ \A o \in TextIds \ {t} : texts'[o] = texts[o]]_vars

\* C19 witness: u called update-task on a text that u annotates and that a
\* reviewer sent back for revision, and the call was answered 400.
C19_Witness ==
    \E u \in Users, t \in TextIds :
        /\ resp = Response("update_task", u, t, 0, 400, NULL)
        /\ texts[t].annotator_id = u
        /\ texts[t].status = REVIEWED_NEEDS_REVISION

\* C20: no call of an annotator to delete-annotation, revert-work or
\* delete-my-annotations removes an annotation that has an agree review,
\* whatever the status of its text.
C20_EndorsedSurvives ==
    [][\A a \in AnnotationIds :
          ( /\ Endorsed(a)
            /\ resp'.op \in {"delete_annotation", "revert_work",
                             "delete_my_annotations"}
            /\ UserRole(resp'.user) = "annotator" )
              => annotations'[a] = annotations[a]]_vars

(* ---------------------------------------------------- properties: review *)
\* C21: an annotation that has an agree review and stays in the table still
\* has an agree review after every call of a reviewer (a single review, a
\* review submission, the deletion of a review).
C21_NoUnlock ==
    [][\A a \in AnnotationIds :
          ( /\ Endorsed(a)
            /\ resp'.op \in {"review_annotation", "submit_review", "delete_review"}
            /\ ~annotations'[a].deleted )
              => \E r \in reviews' : r.annotation_id = a /\ r.decision = "agree"]_vars

\* every annotation of text t in table ann has an agree review in rev
AllAgreed(ann, rev, t) ==
    \A a \in AnnotationsOf(ann, t) :
        \E r \in rev : r.annotation_id = a /\ r.decision = "agree"

\* C22: a text in status reviewed has an agree review on every one of its
\* annotations; the creation of an annotation, a single review, a review
\* submission and a task update all keep or establish this.
C22_ReviewedAllAgreed ==
    [][\A t \in TextIds :
          ( /\ resp'.op \in {"create_annotation", "review_annotation",
                             "submit_review", "update_task"}
            /\ texts[t].status = REVIEWED => AllAgreed(annotations, reviews, t)
            /\ texts'[t].status = REVIEWED )
              => AllAgreed(annotations', reviews', t)]_vars

\* C23: a review submission that fails stores none of its decisions and leaves
\* the status and the reviewer of the text unchanged.
C23_SubmitAtomic ==
    [][(resp'.op = "submit_review" /\ resp'.code # 200)
          => UNCHANGED <<reviews, texts>>]_vars

\* the reviews in rev of annotation a by reviewer u
ReviewsOfPair(rev, a, u) ==
    {r \in rev : r.annotation_id = a /\ r.reviewer_id = u}

C25_DecisionValues ==
    \A r \in reviews : r.decision \in {"agree", "disagree"}

(* ------------------------------------------------ properties: annotation *)
\* C26: every stored annotation satisfies 0 <= start < end <= length of the
\* content of its text.
C26_SpanWithinContent ==
    \A a \in AnnotationIds :
        /\ 0 <= annotations[a].start_position
        /\ annotations[a].start_position < annotations[a].end_position
        /\ annotations[a].end_position <= ContentLength

\* C27: the list of texts for review answered to reviewer R, and the next text
\* answered to R by a review submission, contain no text whose annotator is R.
C27_NoSelfReview ==
    /\ (resp.op = "texts_for_review" /\ resp.code = 200)
          => \A t \in resp.text : texts[t].annotator_id # resp.user
    /\ (resp.op = "submit_review" /\ resp.code = 200 /\ resp.text # NULL)
          => texts[resp.text].annotator_id # resp.user

\* C27 witness: the reviewer was answered a list that is not empty while a
\* text the reviewer annotated is awaiting review.
C27_Witness ==
    /\ resp.op = "texts_for_review" /\ resp.code = 200
    /\ resp.text # {}
    /\ \E t \in TextIds : /\ texts[t].annotator_id = resp.user
                          /\ texts[t].status = ANNOTATED

(* ---------------------------------------------- properties: self-service *)
\* C28: a start-work call of a user of role user who holds no text in progress
\* answers none and changes no text, and no start-work or skip call of such a
\* user makes the user annotator of a text of the pool (a text without
\* uploader).
C28_SelfServiceNeverPulls ==
    [][\A u \in SelfUsers :
          /\ (resp'.op = "start_work" /\ resp'.user = u /\ HeldBy(u) = {})
                => /\ resp' = Response("start_work", u, NULL, 0, 404, NULL)
                   /\ texts' = texts
          /\ (resp'.op \in {"start_work", "skip_text"} /\ resp'.user = u)
                => \A t \in TextIds :
                      (texts[t].uploaded_by = NULL /\ texts'[t].annotator_id = u)
                          => texts[t].annotator_id = u]_vars

\* C28 witness: a user of role user was answered none by start-work while a
\* text of the pool and a text the user uploaded were both unclaimed.
C28_Witness ==
    \E u \in SelfUsers, a \in TextIds, b \in TextIds :
        /\ resp = Response("start_work", u, NULL, 0, 404, NULL)
        /\ texts[a].uploaded_by = NULL
        /\ texts[a].status = INITIALIZED /\ texts[a].annotator_id = NULL
        /\ texts[b].uploaded_by = u
        /\ texts[b].status = INITIALIZED /\ texts[b].annotator_id = NULL

\* C29: a skip call of a user who holds no text in progress answers none, adds
\* no rejection record and changes no text.
C29_SkipWithoutWork ==
    [][\A u \in Users :
          (resp'.op = "skip_text" /\ resp'.user = u /\ HeldBy(u) = {})
              => /\ resp' = Response("skip_text", u, NULL, 0, 404, NULL)
                 /\ rejected' = rejected
                 /\ texts' = texts]_vars

\* C29 witness: a user who holds nothing called skip and was answered none
\* while another user holds a text in progress and a text is unclaimed.
C29_Witness ==
    \E u \in Users, a \in TextIds, b \in TextIds :
        /\ resp = Response("skip_text", u, NULL, 0, 404, NULL)
        /\ HeldBy(u) = {}
        /\ texts[a].status = PROGRESS /\ texts[a].annotator_id # u
        /\ texts[b].status = INITIALIZED /\ texts[b].annotator_id = NULL

(* ---------------------------------------------------- properties: ledger *)
\* C30: every step keeps every record of the rejection ledger and leaves at
\* most one record per (user, text) pair; recording a pair that is already in
\* the ledger raises nothing and leaves the ledger as it was.
C30_LedgerGrows ==
    [][/\ rejected \sqsubseteq rejected'
       /\ \A row \in BagToSet(rejected') : CopiesIn(row, rejected') = 1
       /\ \A u \in Users, t \in TextIds :
             ( /\ resp'.op = "rejected_create" /\ resp'.user = u /\ resp'.arg = t
               /\ BagIn([user_id |-> u, text_id |-> t], rejected) )
                 => /\ resp'.code = 200
                    /\ rejected' = rejected]_vars

\* C30 witness: a pair that is in the ledger was recorded again and nothing
\* was stored.
C30_Witness ==
    \E u \in Users, t \in TextIds :
        /\ resp = Response("rejected_create", u, t, 0, 200, NULL)
        /\ CopiesIn([user_id |-> u, text_id |-> t], rejected) = 1

(* ----------------------------------------------- properties: concurrency *)
\* C31: no update of a text row is lost: when a start-work handler writes its
\* claim, the row still has the status and the annotator that the handler read
\* at its selection (initialized, no annotator), so the outcome is that of the
\* calls executed one after the other.
C31_NoLostUpdate ==
    [][\A u \in Users :
          (req[u].pc = "assign" /\ req'[u].pc = "idle")
              => /\ texts[req[u].sel].status = INITIALIZED
                 /\ texts[req[u].sel].annotator_id = NULL]_vars

\* C32: a start-work handler that comes to its write after another user has
\* claimed the selected text loses the race: it leaves the text to its holder,
\* is not answered that text, and is answered none only if no text is eligible
\* for it then.
C32_LoserRetries ==
    [][\A u \in Users :
          ( /\ req[u].op = "start_work" /\ req[u].pc = "assign"
            /\ req'[u] # req[u]
            /\ texts[req[u].sel].status = PROGRESS
            /\ texts[req[u].sel].annotator_id \notin {NULL, u} )
              => /\ texts'[req[u].sel] = texts[req[u].sel]
                 /\ resp' # Response("start_work", u, NULL, 0, 200, req[u].sel)
                 /\ resp' = Response("start_work", u, NULL, 0, 404, NULL)
                       => Eligible(u) = {}]_vars

\* C33: while a text is claimed (in progress with annotator U), no call of
\* another user creates an annotation on it.
C33_ExclusiveAnnotation ==
    [][\A u \in Users, t \in TextIds :
          ( /\ resp'.op = "create_annotation" /\ resp'.user = u
            /\ resp'.code = 201 /\ resp'.text = t )
              => ~( /\ texts[t].status = PROGRESS
                    /\ texts[t].annotator_id \notin {NULL, u} )]_vars

\* C34: a text in status reviewed or reviewed_needs_revision has a reviewer
\* who is not its annotator.
C34_ReviewerIsNotAnnotator ==
    \A t \in TextIds :
        texts[t].status \in {REVIEWED, REVIEWED_NEEDS_REVISION}
            => texts[t].reviewer_id # texts[t].annotator_id

\* C35: a review submission of R for text t that succeeds leaves a review by R
\* on every annotation of t, and a submission changes no review of an
\* annotation of another text.
C35_SubmissionCoversText ==
    [][\A u \in Users, t \in TextIds :
          (resp'.op = "submit_review" /\ resp'.user = u /\ resp'.arg = t)
              => /\ resp'.code = 200
                    => \A a \in AnnotationsOf(annotations, t) :
                          ReviewsOfPair(reviews', a, u) # {}
                 /\ \A r \in (reviews' \ reviews) \cup (reviews \ reviews') :
                       r.annotation_id \in AnnotationsOf(annotations, t)]_vars

\* C36: no user is the annotator of more than one text in progress.
C36_OneTextInProgress ==
    \A u \in Users : Cardinality(HeldBy(u)) <= 1

\* C37: a text in status initialized with no annotator carries no annotation
\* owned by a user: a cancel-work or skip call that releases a text leaves no
\* annotation of the caller on it.
C37_ReleasedTextIsClean ==
    [][\A u \in Users, t \in TextIds :
          ( /\ resp'.op \in {"cancel_work", "skip_text"} /\ resp'.user = u
            /\ texts[t].annotator_id = u
            /\ texts'[t].status = INITIALIZED /\ texts'[t].annotator_id = NULL )
              => UserAnnotations(annotations', t, u) = {}]_vars

\* C38: under every interleaving of a reviewer's decisions with the owner's
\* update and delete calls, no write of such a call changes or removes an
\* annotation that has an agree review at the moment of the write.
C38_CheckHoldsAtWrite ==
    [][\A u \in Users, a \in AnnotationIds :
          ( /\ req[u].pc = "write" /\ req[u].sel = a /\ req'[u].pc = "idle"
            /\ Endorsed(a) )
              => annotations'[a] = annotations[a]]_vars

====
